---- MODULE Spec2Model ----
(***************************************************************************)
(* Model of uf's Initialization task (src/uf/task/init.py) and of the      *)
(* encoding pipeline of StockBERTClassifier                                *)
(* (src/uf/apps/stockbert/stockbert_classifier.py).                        *)
(*                                                                         *)
(* Five specifications share the variables:                                *)
(*   SpecSession   the module's session state under lifecycle requests     *)
(*   SpecLabels    the label vocabulary under sequences of _convert_y calls *)
(*   SpecEncode    _convert_X applied to batches of samples                *)
(*   SpecConvert   one convert call on a classifier of any configuration   *)
(*   SpecPipeline  lifecycle requests followed by a convert call           *)
(***************************************************************************)
EXTENDS Integers, Sequences, FiniteSets, TLC

\* ------------------------------------------------------------------ bounds

\* Number of distinct global parameters the graph can ever hold.
MaxParams == 2

Params == 1..MaxParams

\* Labels are 0..MaxLabel.  1..MaxLabel are labels of one type, ordered as
\* the integers are; 0 is a label of another type, which Python's sorted()
\* cannot compare with them (a TypeError).
MaxLabel == 2

\* Longest list of labels handed to one _convert_y call.
MaxLabelBatch == 2

Labels == 0..MaxLabel

\* Largest max_seq_length and max_unit_length the classifier is built with,
\* most units in a sample and most samples in a batch.
MaxSeqLen == 4

MaxUnitLen == 2

MaxUnits == 3

MaxBatch == 2

\* The configured batch sizes and the numbers of workers (GPU ids).
MaxBatchSize == 3

MaxGpus == 3

\* ----------------------------------------------------------------- state

VARIABLES
    \* --- module state read and written by Initialization.run
    graph_built,        \* placeholders and tensors exist (module.placeholders / module.tensors)
    session_built,      \* module._session_built
    session_mode,       \* module._session_mode: "none" (None), "infer", "train"
    global_variables,   \* module.global_variables
    inited_vars,        \* module._inited_vars
    last,               \* what the last lifecycle request did
    prev,               \* what the lifecycle request before it did
    \* --- classifier state read and written by _convert_y
    label_size,         \* self.label_size; 0 is "not set" (None and 0 are both falsy)
    id_to_label,        \* self._id_to_label; <<>> is "not set" (None and [] are both falsy)
    label_to_id,        \* self._label_to_id; the empty map is "not set"
    encoded,            \* a _convert_y call has been made
    ylast,              \* what the last _convert_y call did
    \* --- classifier state read by _convert_X
    max_seq_length,     \* self.max_seq_length
    max_unit_length,    \* self.max_unit_length
    truncate_method,    \* self.truncate_method
    X_target,           \* the batch handed to _convert_X
    xlast,              \* what _convert_X did with it
    \* --- module state read and written by convert
    batch_size,         \* self.batch_size
    n_gpus,             \* len(self._gpu_ids)
    clast               \* what the convert call did

sessionVars == <<graph_built, session_built, session_mode, global_variables,
                 inited_vars, last, prev>>

labelVars == <<label_size, id_to_label, label_to_id, encoded, ylast>>

encodeVars == <<max_seq_length, max_unit_length, truncate_method, X_target, xlast>>

convertVars == <<batch_size, n_gpus, clast>>

vars == <<sessionVars, labelVars, encodeVars, convertVars>>

\* ------------------------------------------------- Initialization.run

\* module._parallel_forward: building the forward graph declares the
\* parameters of the graph; the ones it adds join module.global_variables.
ParallelForward(globals, added) == globals \cup added

BuildsGraphWhenUnbuilt(built) == ~built

\* init.py:11-12 stand under no test: every call declares the placeholders
\* and builds the forward graph, whether or not a graph exists.
BuildsGraph(built) == TRUE

NeedFullInitOnlyOnRequest(reinit_all, built) == reinit_all

\* init.py:15, the test that selects the full initialization.
NeedFullInit(reinit_all, built) == reinit_all \/ ~built

UninitedVariablesAll(globals, inited) == globals

UninitedVariablesNone(globals, inited) == {}

\* init.py:20-23, the variables not yet in module._inited_vars.
UninitedVariables(globals, inited) == {v \in globals : v \notin inited}

InitPathWithoutNoop(reinit_all, built, globals, inited) ==
    IF NeedFullInit(reinit_all, built) THEN "full" ELSE "incremental"

\* init.py:15-30, the branch taken.
InitPath(reinit_all, built, globals, inited) ==
    IF NeedFullInit(reinit_all, built) THEN "full"
    ELSE IF UninitedVariables(globals, inited) # {} THEN "incremental"
    ELSE "noop"

\* init.py:16 and init.py:25, the variables handed to the initialization
\* step: all of them on the full path (Task._init_session initializes
\* module.global_variables), the difference on the incremental path.
HandedVariables(reinit_all, built, globals, inited) ==
    IF NeedFullInit(reinit_all, built) THEN globals
    ELSE UninitedVariables(globals, inited)

\* init.py:16 and init.py:25, the ignore_checkpoint value each call of an
\* initialization step receives (none on the no-op branch).
PassedIgnoreCheckpoint(path, ignore_checkpoint) ==
    IF path = "noop" THEN {} ELSE {ignore_checkpoint}

\* Task._init_session: creates the session when there is none, initializes
\* every global parameter and marks the session built.
\* Task._init_variables: initializes the given parameters and adds them to
\* module._inited_vars.  A step that raises changes neither.
SessionBuiltAfter(path, ok, built) ==
    IF path = "full" /\ ok THEN TRUE ELSE built

InitedAfter(path, ok, handed, inited) ==
    IF path # "noop" /\ ok THEN inited \cup handed ELSE inited

SessionModeSetFirst(ok, mode) == "infer"

SessionModeKept(ok, mode) == IF ok /\ mode = "none" THEN "infer" ELSE mode

\* init.py:31, reached only when no initialization step raised.
SessionModeAfter(ok, mode) == IF ok THEN "infer" ELSE mode

NoCall ==
    [op |-> "none", reinit_all |-> FALSE, ignore_checkpoint |-> FALSE,
     ok |-> TRUE, path |-> "noop", handed |-> {}, passed |-> {},
     builds |-> FALSE,
     pre_graph_built |-> FALSE, pre_session_built |-> FALSE,
     pre_mode |-> "none", pre_inited |-> {}, pre_globals |-> {},
     globals |-> {},
     would |-> [mode |-> "none", built |-> FALSE, inited |-> {}]]

\* Initialization.run(reinit_all, ignore_checkpoint).  `added` are the
\* parameters the forward graph declares; `raises` says whether the
\* initialization step (when one runs) raises.
Run(reinit_all, ignore_checkpoint, added, raises) ==
    LET builds  == BuildsGraph(graph_built)
        globals == IF builds THEN ParallelForward(global_variables, added)
                   ELSE global_variables
        path    == InitPath(reinit_all, session_built, globals, inited_vars)
        handed  == HandedVariables(reinit_all, session_built, globals, inited_vars)
        ok      == ~(raises /\ path # "noop")
    IN  /\ raises => path # "noop"
        /\ graph_built' = (graph_built \/ builds)
        /\ global_variables' = globals
        /\ session_built' = SessionBuiltAfter(path, ok, session_built)
        /\ inited_vars' = InitedAfter(path, ok, handed, inited_vars)
        /\ session_mode' = SessionModeAfter(ok, session_mode)
        /\ last' = [op |-> "run", reinit_all |-> reinit_all,
                    ignore_checkpoint |-> ignore_checkpoint,
                    ok |-> ok, path |-> path, handed |-> handed,
                    builds |-> builds,
                    passed |-> PassedIgnoreCheckpoint(path, ignore_checkpoint),
                    pre_graph_built |-> graph_built,
                    pre_session_built |-> session_built,
                    pre_mode |-> session_mode, pre_inited |-> inited_vars,
                    pre_globals |-> global_variables,
                    globals |-> globals,
                    would |-> [mode |-> SessionModeAfter(TRUE, session_mode),
                               built |-> SessionBuiltAfter(path, TRUE, session_built),
                               inited |-> InitedAfter(path, TRUE, handed, inited_vars)]]
        /\ prev' = last
        /\ UNCHANGED <<labelVars, encodeVars, convertVars>>

\* The classifier's graph (encoder and decoder, stockbert_classifier.py:
\* 161-182) always declares parameters: a built graph has at least one.
RunAction ==
    \E reinit_all \in BOOLEAN, ignore_checkpoint \in BOOLEAN,
       added \in SUBSET Params, raises \in BOOLEAN :
        /\ ParallelForward(global_variables, added) # {}
        /\ Run(reinit_all, ignore_checkpoint, added, raises)

\* The lifecycle request that prepares the module for training (spec 4.6:
\* the state initialized-for-training): it builds the training graph, whose
\* parameters (`added`) join the global ones, initializes the session when
\* it was never built and the not yet initialized parameters otherwise.
Train(added) ==
    LET globals == ParallelForward(global_variables, added)
    IN  /\ graph_built' = TRUE
        /\ global_variables' = globals
        /\ session_built' = TRUE
        /\ inited_vars' = inited_vars \cup globals
        /\ session_mode' = "train"
        /\ last' = [NoCall EXCEPT !.op = "train", !.builds = TRUE,
                      !.pre_graph_built = graph_built,
                      !.pre_session_built = session_built,
                      !.pre_mode = session_mode,
                      !.pre_inited = inited_vars,
                      !.pre_globals = global_variables,
                      !.globals = globals]
        /\ prev' = last
        /\ UNCHANGED <<labelVars, encodeVars, convertVars>>

TrainAction ==
    \E added \in SUBSET Params :
        /\ ParallelForward(global_variables, added) # {}
        /\ Train(added)

\* ------------------------------------------ StockBERTClassifier._convert_y

Range(seq) == {seq[i] : i \in 1..Len(seq)}

EmptyMap == [l \in {} |-> 0]

\* Lists of at most n labels.
LabelLists(n) == UNION {[1..k -> Labels] : k \in 0..n}

\* list(label_set), stockbert_classifier.py:132: the set's elements in the
\* order the set happens to iterate in.
ListOrders(S) ==
    {q \in [1..Cardinality(S) -> S] : Range(q) = S}

\* Whether sorted() can compare the labels (line 136 does not raise).
Orderable(S) == 0 \notin S \/ S = {0}

RECURSIVE Ascending(_)
Ascending(S) ==
    IF S = {} THEN <<>>
    ELSE LET m == CHOOSE x \in S : \A z \in S : x <= z
         IN  <<m>> \o Ascending(S \ {m})

SortedLabelsSkipped(listed) == listed

\* stockbert_classifier.py:133-138: the list sorted, or left as it is when
\* the labels cannot be compared.
SortedLabels(listed) ==
    IF Orderable(Range(listed)) THEN Ascending(Range(listed)) ELSE listed

CapacityNotChecked(n_unique, size) == TRUE

\* stockbert_classifier.py:126, the assertion on the batch's distinct labels.
CapacityHolds(n_unique, size) == n_unique <= size

HasRoomInclusive(n_known, size) == n_known <= size

\* stockbert_classifier.py:147, the assertion before a label is appended.
HasRoom(n_known, size) == n_known < size

NextIdAfterAppend(l2i) == Cardinality(DOMAIN l2i) + 1

\* stockbert_classifier.py:148, the id a new label receives.
NextId(l2i) == Cardinality(DOMAIN l2i)

\* stockbert_classifier.py:142, the map built from the list.
IndexOf(i2l) == [l \in Range(i2l) |-> (CHOOSE i \in 1..Len(i2l) : i2l[i] = l) - 1]

\* stockbert_classifier.py:144-151, the loop over y from position i on.
RECURSIVE EncodeLoop(_, _, _, _, _, _)
EncodeLoop(size, i2l, l2i, y, i, ids) ==
    IF i > Len(y)
    THEN [ok |-> TRUE, label_size |-> size, id_to_label |-> i2l,
          label_to_id |-> l2i, label_ids |-> ids]
    ELSE IF y[i] \in DOMAIN l2i
    THEN EncodeLoop(size, i2l, l2i, y, i + 1, Append(ids, l2i[y[i]]))
    ELSE IF ~HasRoom(Cardinality(DOMAIN l2i), size)
    THEN [ok |-> FALSE, label_size |-> size, id_to_label |-> i2l,
          label_to_id |-> l2i, label_ids |-> <<>>]
    ELSE LET n == NextId(l2i)
         IN  EncodeLoop(size, Append(i2l, y[i]),
                        [l \in DOMAIN l2i \cup {y[i]} |->
                            IF l = y[i] THEN n ELSE l2i[l]],
                        y, i + 1, Append(ids, n))

\* _convert_y(y) on the state (size, i2l, l2i); `listed` is list(label_set).
\* The result holds the state the call leaves and, when it returns, its ids;
\* ok = FALSE is an AssertionError.
ConvertY(size, i2l, l2i, y, listed) ==
    LET label_set == Range(y)
    IN  IF size # 0 /\ ~CapacityHolds(Cardinality(label_set), size)
        THEN [ok |-> FALSE, label_size |-> size, id_to_label |-> i2l,
              label_to_id |-> l2i, label_ids |-> <<>>]
        ELSE LET size1 == IF size # 0 THEN size ELSE Cardinality(label_set)
                 i2l1  == IF i2l = <<>> THEN SortedLabels(listed) ELSE i2l
                 l2i1  == IF DOMAIN l2i = {} THEN IndexOf(i2l1) ELSE l2i
             IN  EncodeLoop(size1, i2l1, l2i1, y, 1, <<>>)

NoEncode ==
    [called |-> FALSE, y |-> <<>>, ok |-> TRUE, label_ids |-> <<>>,
     first |-> FALSE, pre_size |-> 0, pre_id_to_label |-> <<>>,
     pre_label_to_id |-> EmptyMap]

Encode(y, listed) ==
    LET r == ConvertY(label_size, id_to_label, label_to_id, y, listed)
    IN  /\ label_size' = r.label_size
        /\ id_to_label' = r.id_to_label
        /\ label_to_id' = r.label_to_id
        /\ encoded' = TRUE
        /\ ylast' = [called |-> TRUE, y |-> y, ok |-> r.ok,
                     label_ids |-> r.label_ids, first |-> ~encoded,
                     pre_size |-> label_size,
                     pre_id_to_label |-> id_to_label,
                     pre_label_to_id |-> label_to_id]
        /\ UNCHANGED <<sessionVars, encodeVars, convertVars>>

\* list(label_set) is read only when the vocabulary is built (line 131).
EncodeAction ==
    \E y \in LabelLists(MaxLabelBatch) :
        \E listed \in (IF id_to_label = <<>> THEN ListOrders(Range(y))
                        ELSE {Ascending(Range(y))}) :
            Encode(y, listed)

\* ------------------------------------------ StockBERTClassifier._convert_X

\* A unit is a list of numbers; a positive number stands for a float.  The
\* i-th unit of a sample holds the value i, so that a unit tells its place.
IsFloat(v) == v > 0

Unit(i, n) == [j \in 1..n |-> i]

\* Samples of at most MaxUnits units, each of the expected length or one
\* number short of it.
SamplesOf(unit_length) ==
    UNION {{[i \in 1..k |-> Unit(i, lens[i])] :
               lens \in [1..k -> {unit_length - 1, unit_length}]} :
           k \in 0..MaxUnits}

BatchesOf(unit_length) ==
    UNION {[1..n -> SamplesOf(unit_length)] : n \in 0..MaxBatch}

\* _convert_x, stockbert_classifier.py:117-119: x[0] and x[0][0] must exist
\* and x[0][0] be a float; anything else raises.
ConvertSampleOk(x) ==
    /\ Len(x) >= 1
    /\ Len(x[1]) >= 1
    /\ IsFloat(x[1][1])

TruncateLimitWhole(seq_length) == seq_length

TruncateLimitTwoLess(seq_length) == seq_length - 2

\* stockbert_classifier.py:100, the number of units truncation leaves.
TruncateLimit(seq_length) == seq_length - 1

\* com.truncate_segments on the one segment (spec 4.1): units over the
\* limit are removed, the earliest under "LIFO" (the most recent are kept),
\* the latest under "FIFO" (the earliest are kept).
TruncateSegments(segments, limit, method) ==
    IF Len(segments) <= limit THEN segments
    ELSE IF method = "LIFO"
    THEN SubSeq(segments, Len(segments) - limit + 1, Len(segments))
    ELSE SubSeq(segments, 1, limit)

PadCountWhole(seq_length, n_values) == seq_length - n_values

\* stockbert_classifier.py:108, the number of padding rows.
PadCount(seq_length, n_values) == seq_length - 1 - n_values

\* stockbert_classifier.py:109, one padding row.
ZeroUnit(unit_length) == [j \in 1..unit_length |-> 0]

\* stockbert_classifier.py:96-113 for one sample: the kept units and the
\* padding rows, the mask, and whether every kept unit passed line 102.
EncodeSegments(segments, seq_length, unit_length, method) ==
    LET kept == TruncateSegments(segments, TruncateLimit(seq_length), method)
        pad  == PadCount(seq_length, Len(kept))
        n    == IF pad > 0 THEN pad ELSE 0
    IN  [ok     |-> \A i \in 1..Len(kept) : Len(kept[i]) = unit_length,
         values |-> kept \o [i \in 1..n |-> ZeroUnit(unit_length)],
         mask   |-> [i \in 1..Len(kept) |-> 1] \o <<1>> \o [i \in 1..n |-> 0]]

\* _convert_X(X_target): "format" is the ValueError of line 88, "assert"
\* the AssertionError of line 102; neither returns anything.
ConvertX(batch, seq_length, unit_length, method) ==
    LET enc == [i \in 1..Len(batch) |->
                   EncodeSegments(batch[i], seq_length, unit_length, method)]
    IN  IF \E i \in 1..Len(batch) : ~ConvertSampleOk(batch[i])
        THEN [status |-> "format", input_values |-> <<>>, input_mask |-> <<>>]
        ELSE IF \E i \in 1..Len(batch) : ~enc[i].ok
        THEN [status |-> "assert", input_values |-> <<>>, input_mask |-> <<>>]
        ELSE [status |-> "ok",
              input_values |-> [i \in 1..Len(batch) |-> enc[i].values],
              input_mask |-> [i \in 1..Len(batch) |-> enc[i].mask]]

NoConvert == [status |-> "none", input_values |-> <<>>, input_mask |-> <<>>]

EncodeX ==
    /\ xlast.status = "none"
    /\ xlast' = ConvertX(X_target, max_seq_length, max_unit_length, truncate_method)
    /\ UNCHANGED <<max_seq_length, max_unit_length, truncate_method, X_target>>
    /\ UNCHANGED <<sessionVars, labelVars, convertVars>>

\* ------------------------------------------- StockBERTClassifier.convert

\* An optional argument: None, or a value.
Absent == [given |-> FALSE, v |-> <<>>]

Opt(S) == {Absent} \cup {[given |-> TRUE, v |-> x] : x \in S}

Max(a, b) == IF a >= b THEN a ELSE b

\* self._assert_legal (spec 4.2: exactly one of X and X_tokenized is the
\* source of the input): a call that gives both is rejected.  It changes no
\* state.
AssertLegal(X, y, sample_weight, X_tokenized) == ~(X.given /\ X_tokenized.given)

ContractViolationButParallel(X, y, sample_weight, X_tokenized, is_training, is_parallel, size) ==
    IF ~AssertLegal(X, y, sample_weight, X_tokenized) THEN "illegal"
    ELSE IF X.given THEN "raw_X"
    ELSE IF is_training /\ ~y.given THEN "no_y"
    ELSE "none"

\* stockbert_classifier.py:46-52, the checks made before anything else:
\* the one that raises, or "none".  `assert self.label_size` fails for None
\* and for 0 alike.
ContractViolation(X, y, sample_weight, X_tokenized, is_training, is_parallel, size) ==
    IF ~AssertLegal(X, y, sample_weight, X_tokenized) THEN "illegal"
    ELSE IF X.given THEN "raw_X"
    ELSE IF is_training /\ ~y.given THEN "no_y"
    ELSE IF is_parallel /\ size = 0 THEN "no_label_size"
    ELSE "none"

\* stockbert_classifier.py:59-60, the argument handed to _convert_X:
\* `tokenized` is X_tokenized itself, so an empty X_tokenized is falsy and X
\* (None, after line 48) is handed over in its place.
XTarget(X, X_tokenized) ==
    IF X.given THEN X
    ELSE IF X_tokenized.v # <<>> THEN X_tokenized
    ELSE X

\* stockbert_classifier.py:60 and 84: enumerate(None) raises a TypeError
\* ("type") before any sample is looked at.
ConvertXTarget(target, seq_length, unit_length, method) ==
    IF ~target.given
    THEN [status |-> "type", input_values |-> <<>>, input_mask |-> <<>>]
    ELSE ConvertX(target.v, seq_length, unit_length, method)

ShrunkBatchSizeToInputs(n_inputs, size, gpus) ==
    IF n_inputs < size THEN n_inputs ELSE size

\* stockbert_classifier.py:65-66.
ShrunkBatchSize(n_inputs, size, gpus) ==
    IF n_inputs < size THEN Max(n_inputs, gpus) ELSE size

\* self._convert_sample_weight (spec 4.4): n weights of 1 when none are
\* given, the given ones when there are n of them, a failure otherwise.
\* n_inputs is -1 when no input was encoded (None).
ConvertSampleWeight(sample_weight, n_inputs) ==
    IF n_inputs < 0 THEN [ok |-> FALSE, v |-> <<>>]
    ELSE IF ~sample_weight.given THEN [ok |-> TRUE, v |-> [i \in 1..n_inputs |-> 1]]
    ELSE IF Len(sample_weight.v) = n_inputs THEN [ok |-> TRUE, v |-> sample_weight.v]
    ELSE [ok |-> FALSE, v |-> <<>>]

\* convert(X, y, sample_weight, X_tokenized, is_training, is_parallel) on the
\* current state: the status ("ok" or the step that raised), the state the
\* call leaves, what _convert_X and _convert_y did, and the keys of the
\* returned data.
ConvertCall(X, y, sample_weight, X_tokenized, is_training, is_parallel, listed) ==
    LET violation == ContractViolation(X, y, sample_weight, X_tokenized,
                                       is_training, is_parallel, label_size)
        has_x  == X.given \/ X_tokenized.given
        target == XTarget(X, X_tokenized)
        x      == ConvertXTarget(target, max_seq_length, max_unit_length,
                                 truncate_method)
        n_inputs == IF has_x THEN Len(x.input_values) ELSE -1
        size1  == IF has_x
                  THEN ShrunkBatchSize(n_inputs, batch_size, n_gpus)
                  ELSE batch_size
        yr     == ConvertY(label_size, id_to_label, label_to_id, y.v, listed)
        w      == ConvertSampleWeight(sample_weight, n_inputs)
        untouched ==
            [status |-> violation, batch_size |-> batch_size,
             label_size |-> label_size, id_to_label |-> id_to_label,
             label_to_id |-> label_to_id, n_inputs |-> -1,
             x_called |-> FALSE, x_target |-> Absent, x |-> NoConvert,
             y_called |-> FALSE, y_ok |-> TRUE, label_ids |-> <<>>,
             sample_weight |-> <<>>, keys |-> {}]
        after_x ==
            [untouched EXCEPT !.batch_size = size1, !.n_inputs = n_inputs,
                              !.x_called = has_x,
                              !.x_target = IF has_x THEN target ELSE Absent,
                              !.x = IF has_x THEN x ELSE NoConvert]
        after_y ==
            IF y.given
            THEN [after_x EXCEPT !.label_size = yr.label_size,
                                 !.id_to_label = yr.id_to_label,
                                 !.label_to_id = yr.label_to_id,
                                 !.y_called = TRUE, !.y_ok = yr.ok,
                                 !.label_ids = yr.label_ids]
            ELSE after_x
    IN  IF violation # "none" THEN untouched
        ELSE IF has_x /\ x.status # "ok"
        THEN [untouched EXCEPT !.status = x.status, !.x_called = TRUE,
                               !.x_target = target, !.x = x]
        ELSE IF y.given /\ ~yr.ok
        THEN [after_y EXCEPT !.status = "overflow"]
        ELSE IF (is_training \/ y.given) /\ ~w.ok
        THEN [after_y EXCEPT !.status = "weights"]
        ELSE [after_y EXCEPT
                !.status = "ok",
                !.sample_weight = IF is_training \/ y.given THEN w.v ELSE <<>>,
                !.keys = (IF has_x THEN {"input_values", "input_mask"} ELSE {})
                         \cup (IF y.given THEN {"label_ids"} ELSE {})
                         \cup (IF is_training \/ y.given
                               THEN {"sample_weight"} ELSE {})]

NoConvertCall ==
    [status |-> "none", X |-> Absent, y |-> Absent, sample_weight |-> Absent,
     X_tokenized |-> Absent, is_training |-> FALSE, is_parallel |-> FALSE,
     n_inputs |-> -1, x_called |-> FALSE, y_called |-> FALSE, keys |-> {},
     sample_weight_out |-> <<>>,
     pre_batch_size |-> 0, pre_label_size |-> 0, pre_id_to_label |-> <<>>,
     pre_label_to_id |-> EmptyMap,
     pre_session |-> [graph_built |-> FALSE, session_built |-> FALSE,
                      session_mode |-> "none", global_variables |-> {},
                      inited_vars |-> {}]]

\* What a convert call writes: the classifier's fields, the batch size, and
\* the records of the call and of the _convert_X and _convert_y calls in it.
ConvertWrites(X, y, sample_weight, X_tokenized, is_training, is_parallel, listed) ==
    \E r \in {ConvertCall(X, y, sample_weight, X_tokenized, is_training,
                         is_parallel, listed)} :
        /\ batch_size' = r.batch_size
        /\ label_size' = r.label_size
        /\ id_to_label' = r.id_to_label
        /\ label_to_id' = r.label_to_id
        /\ encoded' = (encoded \/ r.y_called)
        /\ ylast' = IF r.y_called
                    THEN [called |-> TRUE, y |-> y.v, ok |-> r.y_ok,
                          label_ids |-> r.label_ids, first |-> ~encoded,
                          pre_size |-> label_size,
                          pre_id_to_label |-> id_to_label,
                          pre_label_to_id |-> label_to_id]
                    ELSE ylast
        /\ X_target' = IF r.x_called /\ r.x_target.given THEN r.x_target.v
                       ELSE X_target
        /\ xlast' = IF r.x_called THEN r.x ELSE xlast
        /\ clast' = [status |-> r.status, X |-> X, y |-> y,
                     sample_weight |-> sample_weight,
                     X_tokenized |-> X_tokenized,
                     is_training |-> is_training, is_parallel |-> is_parallel,
                     n_inputs |-> r.n_inputs, x_called |-> r.x_called,
                     y_called |-> r.y_called, keys |-> r.keys,
                     sample_weight_out |-> r.sample_weight,
                     pre_batch_size |-> batch_size,
                     pre_label_size |-> label_size,
                     pre_id_to_label |-> id_to_label,
                     pre_label_to_id |-> label_to_id,
                     pre_session |-> [graph_built |-> graph_built,
                                      session_built |-> session_built,
                                      session_mode |-> session_mode,
                                      global_variables |-> global_variables,
                                      inited_vars |-> inited_vars]]
        /\ UNCHANGED <<max_seq_length, max_unit_length, truncate_method, n_gpus>>

ConvertLeavingInferMode(X, y, sample_weight, X_tokenized, is_training, is_parallel, listed) ==
    /\ ConvertWrites(X, y, sample_weight, X_tokenized, is_training,
                     is_parallel, listed)
    /\ session_mode' = "infer"
    /\ UNCHANGED <<graph_built, session_built, global_variables, inited_vars,
                   last, prev>>

\* convert, stockbert_classifier.py:45-78: no statement of it, of _convert_X
\* or of _convert_y assigns a field of the session.
Convert(X, y, sample_weight, X_tokenized, is_training, is_parallel, listed) ==
    /\ ConvertWrites(X, y, sample_weight, X_tokenized, is_training,
                     is_parallel, listed)
    /\ UNCHANGED sessionVars

\* The samples of a convert call: no unit, one unit a number short, one
\* unit of the expected length.
ShortSamples(unit_length) ==
    {<<>>, <<Unit(1, unit_length - 1)>>, <<Unit(1, unit_length)>>}

\* X_tokenized: the empty batch, and batches of at most MaxBatch samples,
\* all of one well-formed unit but the last, which is any short sample.
ConvertBatches(unit_length) ==
    {<<>>} \cup
    UNION {{[i \in 1..n |-> IF i = n THEN x ELSE <<Unit(1, unit_length)>>] :
               x \in ShortSamples(unit_length)} : n \in 1..MaxBatch}

\* y: lists over two labels, one of them (0) not comparable with the other;
\* two labels fill and overflow a capacity of one.
ConvertLabelLists == UNION {[1..k -> {0, 1}] : k \in 0..MaxLabelBatch}

\* sample_weight: lists of weights; only their number is looked at.
ConvertWeights == {[i \in 1..k |-> 1] : k \in 0..MaxBatch}

\* The one convert call of a behaviour, with its arguments drawn from the
\* given sets; X is None or some raw input.  `listed` is list(label_set), as
\* in EncodeAction.
ConvertWith(batches, label_lists, weights) ==
    /\ clast.status = "none"
    /\ \E X \in Opt({<<>>}), X_tokenized \in Opt(batches), y \in Opt(label_lists),
          sample_weight \in Opt(weights),
          is_training \in BOOLEAN, is_parallel \in BOOLEAN :
           \E listed \in (IF id_to_label = <<>> THEN ListOrders(Range(y.v))
                           ELSE {Ascending(Range(y.v))}) :
               Convert(X, y, sample_weight, X_tokenized, is_training,
                       is_parallel, listed)

ConvertAction ==
    ConvertWith(ConvertBatches(max_unit_length), ConvertLabelLists, ConvertWeights)

\* A convert call in the course of the module's life: the empty batch, a
\* well-formed sample, a well-formed sample and a malformed one.
PipelineConvertAction ==
    ConvertWith({<<>>, << <<Unit(1, max_unit_length)>> >>,
                 << <<Unit(1, max_unit_length)>>, <<>> >>},
                {<<1>>}, {<<1>>})

\* The module's batch size and workers before any call configures them.
InitBatchSize ==
    /\ batch_size = MaxBatchSize
    /\ n_gpus = 1
    /\ clast = NoConvertCall

\* The classifier's encoding parameters as the constructor leaves them
\* (stockbert_classifier.py:36-39).
InitEncoder ==
    /\ max_seq_length = MaxSeqLen
    /\ max_unit_length = MaxUnitLen
    /\ truncate_method = "LIFO"
    /\ X_target = <<>>
    /\ xlast = NoConvert

\* The classifier after construction: label_size preset or None, no
\* vocabulary.
InitClassifier ==
    /\ id_to_label = <<>>
    /\ label_to_id = EmptyMap
    /\ encoded = FALSE
    /\ ylast = NoEncode

InitModule ==
    /\ graph_built = FALSE
    /\ session_built = FALSE
    /\ session_mode = "none"
    /\ global_variables = {}
    /\ inited_vars = {}
    /\ last = NoCall
    /\ prev = NoCall

InitLabels ==
    /\ InitModule
    /\ InitBatchSize
    /\ InitClassifier
    /\ InitEncoder
    /\ label_size \in 0..(MaxLabel + 1)

NextLabels == EncodeAction

SpecLabels == InitLabels /\ [][NextLabels]_vars

\* A classifier built with any encoding parameters and handed any batch.
InitEncode ==
    /\ InitModule
    /\ InitBatchSize
    /\ InitClassifier
    /\ label_size = 0
    /\ max_seq_length \in 1..MaxSeqLen
    /\ max_unit_length \in 1..MaxUnitLen
    /\ truncate_method \in {"LIFO", "FIFO"}
    /\ X_target \in BatchesOf(max_unit_length)
    /\ xlast = NoConvert

NextEncode == EncodeX

SpecEncode == InitEncode /\ [][NextEncode]_vars

InitSession ==
    /\ InitClassifier
    /\ InitBatchSize
    /\ InitEncoder
    /\ label_size = 0
    /\ graph_built = FALSE
    /\ session_built = FALSE
    /\ session_mode = "none"
    /\ global_variables = {}
    /\ inited_vars = {}
    /\ last = NoCall
    /\ prev = NoCall

NextSession == RunAction \/ TrainAction

SpecSession == InitSession /\ [][NextSession]_vars

\* A classifier built with or without a label capacity, configured with any
\* batch size and any number of workers, and one convert call.
InitConvert ==
    /\ InitModule
    /\ InitClassifier
    /\ InitEncoder
    /\ label_size \in 0..1
    /\ batch_size \in 1..MaxBatchSize
    /\ n_gpus \in 1..MaxGpus
    /\ clast = NoConvertCall

NextConvert == ConvertAction

SpecConvert == InitConvert /\ [][NextConvert]_vars

\* Lifecycle requests, then a convert call.
InitPipeline == InitSession

NextPipeline ==
    \/ clast.status = "none" /\ RunAction
    \/ clast.status = "none" /\ TrainAction
    \/ PipelineConvertAction

SpecPipeline == InitPipeline /\ [][NextPipeline]_vars

\* The state of spec 3 (SessionState) that the module's fields stand for.
SessionState ==
    IF ~graph_built THEN "unbuilt"
    ELSE IF session_mode = "infer" THEN "initialized-for-inference"
    ELSE IF session_mode = "train" THEN "initialized-for-training"
    ELSE "built"

StateOfMode(mode) ==
    IF mode = "infer" THEN "initialized-for-inference"
    ELSE IF mode = "train" THEN "initialized-for-training"
    ELSE "built"

\* ------------------------------------------------------ encoding claims

\* A sample of at least one unit, each unit max_unit_length floats.
WellFormed(x) ==
    /\ Len(x) >= 1
    /\ \A i \in 1..Len(x) :
          /\ Len(x[i]) = max_unit_length
          /\ \A j \in 1..Len(x[i]) : IsFloat(x[i][j])

\* C9: a batch of well-formed samples is encoded, and for each sample with
\* k units, 1 <= k <= max_seq_length - 1, of an encoded batch the mask has
\* length max_seq_length, k + 1 ones followed by zeros, and the values have
\* max_seq_length - 1 rows: the k units in their order, then all-zero rows
\* of width max_unit_length.
C9_PaddedValuesAndMask ==
    xlast.status # "none" =>
        /\ (\A i \in 1..Len(X_target) : WellFormed(X_target[i]))
              => xlast.status = "ok"
        /\ xlast.status = "ok" =>
              /\ Len(xlast.input_values) = Len(X_target)
              /\ Len(xlast.input_mask) = Len(X_target)
              /\ \A i \in 1..Len(X_target) :
                    LET x == X_target[i]
                        k == Len(x)
                        v == xlast.input_values[i]
                        m == xlast.input_mask[i]
                    IN  (1 <= k /\ k <= max_seq_length - 1) =>
                          /\ WellFormed(x)
                          /\ Len(m) = max_seq_length
                          /\ \A j \in 1..max_seq_length :
                                m[j] = IF j <= k + 1 THEN 1 ELSE 0
                          /\ Len(v) = max_seq_length - 1
                          /\ \A j \in 1..(max_seq_length - 1) :
                                /\ j <= k => v[j] = x[j]
                                /\ j > k =>
                                      /\ Len(v[j]) = max_unit_length
                                      /\ \A c \in 1..max_unit_length : v[j][c] = 0

C9_Witness ==
    /\ xlast.status = "ok"
    /\ max_seq_length = 3 /\ max_unit_length = 2
    /\ X_target = << <<Unit(1, 2)>> >>
    /\ xlast.input_values = << << <<1, 1>>, <<0, 0>> >> >>
    /\ xlast.input_mask = << <<1, 1, 0>> >>

\* C10: for each sample with k > max_seq_length - 1 units of an encoded
\* batch, the values are exactly max_seq_length - 1 of its units in their
\* order, the last ones under LIFO and the first ones under FIFO, and the
\* mask is max_seq_length ones.
C10_TruncatedToLimit ==
    xlast.status = "ok" =>
        \A i \in 1..Len(X_target) :
            LET x == X_target[i]
                k == Len(x)
                v == xlast.input_values[i]
                m == xlast.input_mask[i]
                n == max_seq_length - 1
            IN  k > n =>
                  /\ Len(v) = n
                  /\ truncate_method = "LIFO" =>
                        \A j \in 1..n : v[j] = x[k - n + j]
                  /\ truncate_method = "FIFO" =>
                        \A j \in 1..n : v[j] = x[j]
                  /\ Len(m) = max_seq_length
                  /\ \A j \in 1..max_seq_length : m[j] = 1

C10_Witness ==
    /\ xlast.status = "ok"
    /\ max_seq_length = 3 /\ max_unit_length = 2
    /\ truncate_method = "LIFO"
    /\ X_target = << <<Unit(1, 2), Unit(2, 2), Unit(3, 2)>> >>
    /\ xlast.input_values = << << <<2, 2>>, <<3, 3>> >> >>
    /\ xlast.input_mask = << <<1, 1, 1>> >>

\* The scenario of spec 8: max_seq_length 4, max_unit_length 2, LIFO and the
\* one sample [[1,1],[2,2],[3,3]], encoded.
Scenario3Units ==
    /\ xlast.status # "none"
    /\ max_seq_length = 4 /\ max_unit_length = 2
    /\ truncate_method = "LIFO"
    /\ X_target = << << <<1, 1>>, <<2, 2>>, <<3, 3>> >> >>

\* C11 as stated: the scenario yields values [[2,2],[3,3],[0,0]] and mask
\* [1,1,1,0].
C11_ScenarioDropsFirstUnit ==
    Scenario3Units =>
        /\ xlast.status = "ok"
        /\ xlast.input_values = << << <<2, 2>>, <<3, 3>>, <<0, 0>> >> >>
        /\ xlast.input_mask = << <<1, 1, 1, 0>> >>

\* C11 amended: the three units fit the max_seq_length - 1 = 3 value rows,
\* so nothing is truncated or padded: the scenario yields values
\* [[1,1],[2,2],[3,3]] and mask [1,1,1,1].
C11_ScenarioKeepsAllUnits ==
    Scenario3Units =>
        /\ xlast.status = "ok"
        /\ xlast.input_values = << << <<1, 1>>, <<2, 2>>, <<3, 3>> >> >>
        /\ xlast.input_mask = << <<1, 1, 1, 1>> >>

C11_Witness ==
    /\ Scenario3Units
    /\ xlast.status = "ok"
    /\ Len(xlast.input_values[1]) = 3

\* C12: a batch with a malformed sample (no unit, or a unit that is not
\* max_unit_length floats) fails with the "Wrong input format" error of
\* line 88 and returns nothing.
C12_MalformedGivesFormatError ==
    (xlast.status # "none"
        /\ \E i \in 1..Len(X_target) : ~WellFormed(X_target[i])) =>
            /\ xlast.status = "format"
            /\ xlast.input_values = <<>>
            /\ xlast.input_mask = <<>>

\* ------------------------------------------------------- convert claims

\* A convert call in one of the three cases: raw X given, is_training
\* without labels, is_parallel without a label capacity.
ContractViolated ==
    /\ clast.status # "none"
    /\ \/ clast.X.given
       \/ clast.is_training /\ ~clast.y.given
       \/ clast.is_parallel /\ clast.pre_label_size = 0

\* C13: in each of the three cases convert raises at one of the checks of
\* lines 46-52, before _convert_X or _convert_y is called and with the
\* vocabulary, the capacity and the batch size as they were; it returns no
\* data.
C13_FailsFast ==
    ContractViolated =>
        /\ clast.status \in {"illegal", "raw_X", "no_y", "no_label_size"}
        /\ (clast.X.given /\ ~clast.X_tokenized.given) => clast.status = "raw_X"
        /\ (~clast.X.given /\ clast.is_training /\ ~clast.y.given)
              => clast.status = "no_y"
        /\ ~clast.x_called /\ ~clast.y_called
        /\ xlast = NoConvert /\ ylast = NoEncode /\ ~encoded
        /\ clast.keys = {}
        /\ label_size = clast.pre_label_size
        /\ id_to_label = clast.pre_id_to_label
        /\ label_to_id = clast.pre_label_to_id
        /\ batch_size = clast.pre_batch_size

C13_Witness ==
    /\ ContractViolated
    /\ clast.status = "no_label_size"
    /\ clast.y.given /\ Len(clast.y.v) = 2
    /\ clast.X_tokenized.given /\ Len(clast.X_tokenized.v) = 1
    /\ ~clast.is_training
    /\ batch_size = 3 /\ n_gpus = 1

\* C14 as stated: when the n_inputs encoded samples are fewer than the batch
\* size, the batch size becomes max(n_inputs, worker count), which is not
\* larger than the batch size before the call; otherwise it is unchanged.
\* So no convert call increases the batch size.
C14_BatchSizeNeverIncreases ==
    clast.status # "none" =>
        /\ (clast.n_inputs >= 0 /\ clast.n_inputs < clast.pre_batch_size)
              => batch_size = Max(clast.n_inputs, n_gpus)
        /\ (clast.n_inputs >= 0 /\ clast.n_inputs >= clast.pre_batch_size)
              => batch_size = clast.pre_batch_size
        /\ batch_size <= clast.pre_batch_size

\* C14 amended: when the n_inputs encoded samples are fewer than the batch
\* size, the batch size becomes max(n_inputs, worker count); otherwise, and
\* when no sample was encoded, it is unchanged.  The new value is not larger
\* than the batch size before the call, and not smaller than the worker
\* count, whenever the worker count is not larger than the batch size before
\* the call; with fewer samples than the batch size and more workers than
\* it, the batch size grows to the worker count.
C14_BatchSizeBoundedByWorkers ==
    clast.status # "none" =>
        /\ (clast.n_inputs >= 0 /\ clast.n_inputs < clast.pre_batch_size)
              => batch_size = Max(clast.n_inputs, n_gpus)
        /\ (clast.n_inputs >= 0 /\ clast.n_inputs >= clast.pre_batch_size)
              => batch_size = clast.pre_batch_size
        /\ clast.n_inputs < 0 => batch_size = clast.pre_batch_size
        /\ n_gpus <= clast.pre_batch_size =>
              /\ batch_size <= clast.pre_batch_size
              /\ n_gpus <= batch_size
        /\ (batch_size > clast.pre_batch_size) <=>
              /\ clast.n_inputs >= 0
              /\ clast.n_inputs < clast.pre_batch_size
              /\ n_gpus > clast.pre_batch_size

C14_Witness ==
    /\ clast.status = "ok"
    /\ clast.n_inputs = 1 /\ clast.pre_batch_size = 3 /\ n_gpus = 2
    /\ batch_size = 2

\* C16: a convert call, whatever its arguments and whether it returns or
\* raises, leaves the session as it found it: graph, built flag, mode,
\* global parameters and initialized set.
C16_ConvertLeavesSession ==
    clast.status # "none" =>
        /\ graph_built = clast.pre_session.graph_built
        /\ session_built = clast.pre_session.session_built
        /\ session_mode = clast.pre_session.session_mode
        /\ global_variables = clast.pre_session.global_variables
        /\ inited_vars = clast.pre_session.inited_vars

C16_Witness ==
    /\ clast.status = "weights"
    /\ clast.y_called /\ id_to_label = <<1>>
    /\ session_mode = "train"
    /\ inited_vars = Params
    /\ prev.op = "run"

\* --------------------------------------------------------- label claims

\* The labels of y not in the map l2i, in the order y first meets them.
RECURSIVE NewLabels(_, _, _)
NewLabels(y, i, known) ==
    IF i > Len(y) THEN <<>>
    ELSE IF y[i] \in known THEN NewLabels(y, i + 1, known)
    ELSE <<y[i]>> \o NewLabels(y, i + 1, known \cup {y[i]})

IsPrefix(p, q) == Len(p) <= Len(q) /\ \A i \in 1..Len(p) : p[i] = q[i]

\* C5: once label_size is set (non-zero: preset, or inferred from an
\* encoded batch), neither id_to_label nor label_to_id holds more than
\* label_size labels, after returning and after failing calls alike, and no
\* later call changes label_size.
C5_VocabularyWithinCapacity ==
    /\ label_size # 0 =>
          /\ Len(id_to_label) <= label_size
          /\ Cardinality(DOMAIN label_to_id) <= label_size
    /\ label_size = 0 => id_to_label = <<>> /\ DOMAIN label_to_id = {}
    /\ (ylast.called /\ ylast.pre_size # 0) => label_size = ylast.pre_size

C5_Witness ==
    /\ ylast.called /\ ~ylast.ok
    /\ ylast.pre_size # 0
    /\ Len(ylast.pre_id_to_label) < label_size
    /\ Len(id_to_label) = label_size

\* C6: a label keeps its id through every later call, returning or failing,
\* and no two labels share an id; on a call that finds a vocabulary, the
\* labels it has not seen are appended in the order they are met, each with
\* the vocabulary's size at that moment as its id, and the call fails when
\* it meets an unseen label with the vocabulary at capacity.
C6_IdsNeverReassigned ==
    /\ \A l \in DOMAIN label_to_id :
          /\ label_to_id[l] \in 0..(Len(id_to_label) - 1)
          /\ id_to_label[label_to_id[l] + 1] = l
    /\ Cardinality(DOMAIN label_to_id) = Len(id_to_label)
    /\ ylast.called =>
          /\ \A l \in DOMAIN ylast.pre_label_to_id :
                /\ l \in DOMAIN label_to_id
                /\ label_to_id[l] = ylast.pre_label_to_id[l]
          /\ IsPrefix(ylast.pre_id_to_label, id_to_label)
    /\ (ylast.called /\ ylast.pre_id_to_label # <<>>) =>
          LET new  == NewLabels(ylast.y, 1, DOMAIN ylast.pre_label_to_id)
              room == ylast.pre_size - Len(ylast.pre_id_to_label)
          IN  /\ IsPrefix(id_to_label, ylast.pre_id_to_label \o new)
              /\ ylast.ok => id_to_label = ylast.pre_id_to_label \o new
              /\ ylast.ok =>
                    \A i \in 1..Len(ylast.y) :
                        id_to_label[ylast.label_ids[i] + 1] = ylast.y[i]
              /\ Len(new) > room => ~ylast.ok
              /\ (Len(new) <= room
                    /\ Cardinality(Range(ylast.y)) <= ylast.pre_size) => ylast.ok

C6_Witness ==
    /\ ylast.called /\ ylast.ok
    /\ ylast.pre_id_to_label = <<2>>
    /\ ylast.y = <<1, 0>>
    /\ id_to_label = <<2, 1, 0>>
    /\ ylast.label_ids = <<1, 2>>

\* C7: a call whose batch holds more distinct labels than the capacity set
\* before the call (preset, or inferred by an earlier call) fails and
\* returns no ids.
C7_OverflowingBatchFails ==
    (ylast.called /\ ylast.pre_size # 0
        /\ Cardinality(Range(ylast.y)) > ylast.pre_size) =>
            /\ ~ylast.ok
            /\ ylast.label_ids = <<>>

C7_Witness ==
    /\ ylast.called /\ ~ylast.ok
    /\ ylast.pre_id_to_label # <<>>
    /\ Cardinality(Range(ylast.y)) > ylast.pre_size
    /\ ylast.pre_size = Len(ylast.pre_id_to_label)

\* C8: the first call, with no preset capacity and labels that can be
\* compared, returns; label_size becomes the number of distinct labels,
\* each label's id is its rank in sorted order, and the returned ids are
\* the ranks of y's labels.
C8_FirstCallSortedRanks ==
    (ylast.called /\ ylast.first /\ ylast.pre_size = 0
        /\ Orderable(Range(ylast.y))) =>
            LET S == Range(ylast.y)
                rank(l) == Cardinality({m \in S : m < l})
            IN  /\ ylast.ok
                /\ label_size = Cardinality(S)
                /\ DOMAIN label_to_id = S
                /\ \A l \in S : label_to_id[l] = rank(l)
                /\ Len(id_to_label) = Cardinality(S)
                /\ \A l \in S : id_to_label[rank(l) + 1] = l
                /\ Len(ylast.label_ids) = Len(ylast.y)
                /\ \A i \in 1..Len(ylast.y) : ylast.label_ids[i] = rank(ylast.y[i])

C8_Witness ==
    /\ ylast.called /\ ylast.first /\ ylast.pre_size = 0
    /\ ylast.y = <<2, 1>>
    /\ ylast.label_ids = <<1, 0>>
    /\ label_size = 2
    /\ id_to_label = <<1, 2>>

\* C20: a _convert_y call that fails for lack of capacity leaves the
\* vocabulary (both maps) and the capacity exactly as they were before the
\* call: no label of the failing batch has been added.
C20_FailedEncodeChangesNothing ==
    (ylast.called /\ ~ylast.ok) =>
        /\ label_size = ylast.pre_size
        /\ id_to_label = ylast.pre_id_to_label
        /\ label_to_id = ylast.pre_label_to_id

\* ------------------------------------------------------- session claims

\* C1: a run with reinit_all = FALSE on a session that is already built
\* hands to variable initialization exactly the global parameters that are
\* not in the initialized set: none of the initialized ones, all the others;
\* the session is not fully initialized again, and after a successful call
\* the initialized set is the old one plus that difference.
C1_IncrementalHandsDifference ==
    (last.op = "run" /\ ~last.reinit_all /\ last.pre_session_built) =>
        /\ last.path # "full"
        /\ last.handed = last.globals \ last.pre_inited
        /\ last.handed \cap last.pre_inited = {}
        /\ \A v \in last.globals : v \notin last.pre_inited => v \in last.handed
        /\ last.ok => inited_vars = last.pre_inited \cup (last.globals \ last.pre_inited)

C1_Witness ==
    /\ last.op = "run" /\ ~last.reinit_all /\ last.pre_session_built
    /\ last.ok
    /\ last.pre_inited # {}
    /\ last.handed # {}

\* C2: a run performs the full session initialization exactly when
\* reinit_all is set or the session was never built; otherwise it takes the
\* incremental path (initializing the difference, or nothing when it is
\* empty).  Every initialization step that is called receives the caller's
\* ignore_checkpoint.
C2_FullIffReinitOrUnbuilt ==
    last.op = "run" =>
        /\ (last.path = "full") <=> (last.reinit_all \/ ~last.pre_session_built)
        /\ last.path \in {"full", "incremental", "noop"}
        /\ last.path # "full" => session_built = last.pre_session_built
        /\ last.path = "full" => last.handed = last.globals
        /\ last.path # "noop" => last.passed = {last.ignore_checkpoint}
        /\ last.path = "noop" => last.passed = {}

C2_Witness ==
    /\ last.op = "run" /\ last.path = "full" /\ last.ok
    /\ last.reinit_all /\ last.pre_session_built /\ last.ignore_checkpoint
    /\ prev.op = "run" /\ prev.path = "incremental" /\ ~prev.ignore_checkpoint

\* Two runs in a row without reinit_all, the first one returning, and no
\* parameter declared in between.
TwoIncrementalRuns ==
    /\ prev.op = "run" /\ ~prev.reinit_all /\ prev.ok
    /\ last.op = "run" /\ ~last.reinit_all
    /\ last.globals = prev.globals

\* C3 as stated: of two runs in a row without reinit_all, from any state,
\* the first performs initialization work and the second performs none,
\* leaving the initialized set as the first left it.
C3_FirstAlwaysWorks ==
    TwoIncrementalRuns =>
        /\ prev.path # "noop"
        /\ last.path = "noop"
        /\ inited_vars = last.pre_inited

\* C3 amended: the second of two such runs initializes nothing and leaves
\* the initialized set as the first left it; the first performs
\* initialization work exactly when it found the session not built or some
\* global parameter not yet initialized.
C3_SecondRunIsNoop ==
    TwoIncrementalRuns =>
        /\ last.path = "noop"
        /\ last.ok
        /\ last.handed = {}
        /\ inited_vars = last.pre_inited
        /\ (prev.path # "noop") <=>
              (~prev.pre_session_built \/ ~(prev.globals \subseteq prev.pre_inited))

C3_Witness ==
    /\ TwoIncrementalRuns
    /\ prev.path = "incremental"
    /\ last.path = "noop"
    /\ inited_vars = Params

\* A run that raised, followed by a returning run with the same arguments
\* and no parameter declared in between.
RetryAfterFailure ==
    /\ prev.op = "run" /\ ~prev.ok
    /\ last.op = "run" /\ last.ok
    /\ last.reinit_all = prev.reinit_all
    /\ last.ignore_checkpoint = prev.ignore_checkpoint
    /\ last.globals = prev.globals

\* C4 as stated: a run whose initialization step raises leaves the session
\* state at `built`.
C4_FailureLeavesBuilt ==
    (last.op = "run" /\ ~last.ok) => SessionState = "built"

\* C4 amended: a run whose initialization step raises does not advance the
\* session state: the graph is built and the session mode is the one before
\* the call, so the state is `built` when the call started from unbuilt or
\* built and the earlier initialized state otherwise; a retry with the same
\* arguments that returns reaches the state the first call would have
\* reached had it returned.
C4_FailureKeepsMode ==
    /\ (last.op = "run" /\ ~last.ok) =>
          /\ graph_built
          /\ session_mode = last.pre_mode
          /\ SessionState = StateOfMode(last.pre_mode)
    /\ RetryAfterFailure =>
          /\ session_mode = prev.would.mode
          /\ session_built = prev.would.built
          /\ inited_vars = prev.would.inited

C4_Witness ==
    /\ RetryAfterFailure
    /\ ~prev.pre_graph_built
    /\ prev.globals = Params
    /\ last.pre_mode = "none"
    /\ SessionState = "initialized-for-inference"

\* A call with reinit_all and ignore_checkpoint false on a session that is
\* initialized, every global parameter initialized, the graph declaring no
\* new one.
NothingToInitialize ==
    /\ last.op = "run" /\ ~last.reinit_all /\ ~last.ignore_checkpoint
    /\ last.pre_session_built
    /\ last.pre_mode \in {"infer", "train"}
    /\ last.pre_globals \subseteq last.pre_inited
    /\ last.globals = last.pre_globals

\* C15 as stated: such a call initializes nothing, returns, and leaves the
\* session mode, the built flag and the initialized set as they were,
\* whether the session was initialized for inference or for training.
C15_NoopLeavesModeAlone ==
    NothingToInitialize =>
        /\ last.path = "noop" /\ last.ok /\ last.handed = {}
        /\ session_mode = last.pre_mode
        /\ session_built = last.pre_session_built
        /\ inited_vars = last.pre_inited

\* C15 amended: such a call initializes nothing, returns, and leaves the
\* built flag and the initialized set as they were; the session mode is
\* inference afterwards, so it is unchanged on a session initialized for
\* inference and changed on one initialized for training.
C15_NoopSetsInferenceMode ==
    NothingToInitialize =>
        /\ last.path = "noop" /\ last.ok /\ last.handed = {}
        /\ last.passed = {}
        /\ session_mode = "infer"
        /\ (session_mode = last.pre_mode) <=> (last.pre_mode = "infer")
        /\ session_built = last.pre_session_built
        /\ inited_vars = last.pre_inited

C15_Witness ==
    /\ NothingToInitialize
    /\ last.pre_mode = "train"
    /\ session_mode = "infer"
    /\ inited_vars = Params

\* C17: every run that returns, whatever its arguments and the state it
\* started from, ends in the state initialized-for-inference.
C17_SuccessEndsInInference ==
    (last.op = "run" /\ last.ok) =>
        /\ session_mode = "infer"
        /\ SessionState = "initialized-for-inference"

C17_Witness ==
    /\ last.op = "run" /\ last.ok /\ last.path = "noop"
    /\ last.pre_mode = "train"
    /\ prev.op = "train" /\ ~prev.pre_graph_built
    /\ SessionState = "initialized-for-inference"

\* C18: after every run that returns (full, incremental or no-op) every
\* global parameter is in the initialized set.
C18_SuccessInitializesAll ==
    (last.op = "run" /\ last.ok) =>
        /\ global_variables = last.globals
        /\ global_variables \subseteq inited_vars

C18_Witness ==
    /\ last.op = "run" /\ last.ok /\ last.path = "incremental"
    /\ last.pre_inited # {} /\ last.pre_inited # Params
    /\ global_variables = Params
    /\ inited_vars = Params

\* C19 as stated: a run declares the placeholders and builds the forward
\* graph when the module is unbuilt, and does neither on a built module.
C19_BuildsOnlyWhenUnbuilt ==
    last.op = "run" =>
        /\ graph_built
        /\ last.builds <=> ~last.pre_graph_built

\* C19 amended: every run declares the placeholders and builds the forward
\* graph, on an unbuilt module (which becomes built) and on a built one
\* (which stays built) alike.
C19_BuildsOnEveryCall ==
    last.op = "run" =>
        /\ last.builds
        /\ graph_built
        /\ last.pre_globals \subseteq global_variables

C19_Witness ==
    /\ last.op = "run" /\ last.pre_graph_built /\ last.builds
    /\ prev.op = "run" /\ ~prev.pre_graph_built /\ prev.builds

====
